---- MODULE Spec2Model ----
(***************************************************************************)
(* Model of management_dashboard/api/annual_summary.py: the whitelisted    *)
(* endpoint get_annual_summary and the helpers it calls.  The host         *)
(* framework (session, roles, defaults, document store) is the             *)
(* environment: its tables and settings are the state the endpoint reads.  *)
(* Amounts are integers (minor currency units); NULL is the value None.    *)
(***************************************************************************)
EXTENDS Integers, Sequences, FiniteSets, TLC

VARIABLES
    session_user,   \* frappe.session.user
    roles,          \* roles of the session user (frappe.has_role)
    user_default,   \* frappe.defaults.get_user_default("Company")
    user_perms,     \* "User Permission" rows of the user with allow = Company
    first_company,  \* frappe.db.get_value("Company", {}, "name")
    perms_raise,    \* the "User Permission" query raises
    installed,      \* doctypes whose table exists
    log_mode,       \* behaviour of the Dashboard View Log write
    today,          \* date.today()
    docs,           \* rows of the document tables
    view_log,       \* rows of Dashboard View Log
    last,           \* the last call of get_annual_summary and its outcome
    n_calls,        \* number of calls made
    changed,        \* the document tables changed since the last call
    n_changes,      \* number of changes of the environment so far
    gl_entries,     \* rows of GL Entry
    accounts,       \* rows of Account
    aging_in,       \* inputs of an aging computation
    aging_out,      \* result of the last aging computation
    trend_in,       \* inputs of a trend computation
    trend_out,      \* result of the last trend computation
    parse_in,       \* raw value given to parse_list
    parse_out,      \* what parse_list returned for it
    filter_in,      \* parsed dimensions given to _build_filters
    filter_out      \* the filter sets built and the documents they keep

vars == <<session_user, roles, user_default, user_perms, first_company,
          perms_raise, installed, log_mode, today, docs, view_log, last,
          n_calls, changed, n_changes, gl_entries, accounts, aging_in, aging_out, trend_in, trend_out,
                parse_in, parse_out, filter_in, filter_out>>

\* Python None / SQL NULL of a string-valued item
None == "None"

\* SQL NULL of a date-valued column
NoDate == << >>

-----------------------------------------------------------------------------
(* Bounds of the model *)

\* calls of get_annual_summary in one behaviour
MaxCalls == 2
\* last year the clock reaches
MaxYear == 2025
\* documents posted while the model runs
MaxPosted == 1
\* changes of the environment (clock, tables, modules, log table) in one behaviour
MaxChanges == 1
\* invoices in the table of an aging or trend computation
MaxInvoices == 2

-----------------------------------------------------------------------------
(* Calendar: a date is <<year, month, day>> *)

IsLeap(y) == (y % 4 = 0 /\ y % 100 # 0) \/ (y % 400 = 0)

DaysInMonth(y, m) ==
    IF m = 2 THEN (IF IsLeap(y) THEN 29 ELSE 28)
    ELSE IF m \in {4, 6, 9, 11} THEN 30 ELSE 31

DaysInYear(y) == IF IsLeap(y) THEN 366 ELSE 365

RECURSIVE DaysBeforeMonth(_, _)
DaysBeforeMonth(y, m) ==
    IF m <= 1 THEN 0 ELSE DaysBeforeMonth(y, m - 1) + DaysInMonth(y, m - 1)

RECURSIVE DaysBeforeYear(_)
DaysBeforeYear(y) ==
    IF y <= 2023 THEN 0 ELSE DaysBeforeYear(y - 1) + DaysInYear(y - 1)

DayOfYear(dt) == DaysBeforeMonth(dt[1], dt[2]) + dt[3]

\* TO_DAYS, counted from the start of 2023
DayNumber(dt) == DaysBeforeYear(dt[1]) + DayOfYear(dt)

\* SQL DATEDIFF(a, b) of two dates that are not NULL
DATEDIFF(a, b) == DayNumber(a) - DayNumber(b)

\* a <= b on dates that are not NULL
DateLE(a, b) ==
    \/ a[1] < b[1]
    \/ a[1] = b[1] /\ a[2] < b[2]
    \/ a[1] = b[1] /\ a[2] = b[2] /\ a[3] <= b[3]

\* Monday = 0 .. Sunday = 6 (2023-01-01 is a Sunday)
Weekday(dt) == (DayNumber(dt) + 5) % 7

YEAR(dt) == dt[1]

MONTH(dt) == dt[2]

QUARTER(dt) == ((dt[2] - 1) \div 3) + 1

\* SQL WEEK(d, 1): Monday first, 0..53, week 1 has 4 or more days this year
WEEK(dt) ==
    LET jan1 == Weekday(<<dt[1], 1, 1>>)
    IN  ((DayOfYear(dt) + jan1 - 1) \div 7) + (IF jan1 <= 3 THEN 1 ELSE 0)

\* SQL YEARWEEK(d, 1): the year the week belongs to, times 100, plus 1..53
YEARWEEK(dt) ==
    LET y == dt[1]
        w == WEEK(dt)
        rem == DaysInYear(y) - DayOfYear(dt)
    IN  IF w = 0 THEN (y - 1) * 100 + WEEK(<<y - 1, 12, 31>>)
        ELSE IF 3 - Weekday(dt) > rem THEN (y + 1) * 100 + 1
        ELSE y * 100 + w

-----------------------------------------------------------------------------
(* Rows of the document tables.  Every row has every field; a text or date *)
(* field a doctype does not use is NULL, a numeric one 0.                   *)

BlankRow ==
    [doctype |-> None, name |-> None, docstatus |-> 0, company |-> None,
     posting_date |-> NoDate, due_date |-> NoDate, cost_center |-> None,
     project |-> None, branch |-> None, customer_group |-> None,
     supplier_group |-> None, item_group |-> None, customer |-> None,
     supplier |-> None, grand_total |-> 0, base_grand_total |-> 0,
     outstanding_amount |-> 0, status |-> None, base_gross_pay |-> 0]

Invoice(dt, nm, co, pd, dd, cc, party, total, out, ds) ==
    [BlankRow EXCEPT !.doctype = dt, !.name = nm, !.company = co,
        !.posting_date = pd, !.due_date = dd, !.cost_center = cc,
        !.project = IF cc = "CC1" THEN "P1" ELSE None,
        !.customer_group = IF dt = "Purchase Invoice" THEN None ELSE "Retail",
        !.supplier_group = IF dt = "Purchase Invoice" THEN "Local" ELSE None,
        !.customer = IF dt = "Purchase Invoice" THEN None ELSE party,
        !.supplier = IF dt = "Purchase Invoice" THEN party ELSE None,
        !.grand_total = total + 1, !.base_grand_total = total,
        !.outstanding_amount = out, !.docstatus = ds]

Staff(dt, nm, co, st) ==
    [BlankRow EXCEPT !.doctype = dt, !.name = nm, !.company = co, !.status = st]

SalarySlip(nm, co, pd, pay) ==
    [BlankRow EXCEPT !.doctype = "Salary Slip", !.name = nm, !.company = co,
        !.posting_date = pd, !.base_gross_pay = pay, !.docstatus = 1]

BaseDocs ==
    { Invoice("Sales Invoice", "SI-1", "A", <<2024, 3, 1>>, <<2024, 2, 1>>, "CC1", "cust1", 100, 100, 1),
      Invoice("Sales Invoice", "SI-2", "A", <<2024, 7, 15>>, <<2025, 1, 15>>, "CC2", "cust2", 50, 0, 1),
      Invoice("Sales Invoice", "SI-3", "A", <<2023, 11, 20>>, <<2023, 12, 20>>, "CC1", "cust1", 30, 30, 1),
      Invoice("Sales Invoice", "SI-4", "A", <<2024, 5, 5>>, <<2024, 6, 5>>, "CC1", "cust3", 7, 7, 0),
      Invoice("Sales Invoice", "SI-5", "B", <<2024, 4, 9>>, <<2024, 5, 9>>, "CC1", "cust1", 11, 11, 1),
      Invoice("Purchase Invoice", "PI-1", "A", <<2024, 2, 10>>, <<2024, 3, 10>>, "CC1", "sup1", 40, 40, 1),
      Invoice("Purchase Invoice", "PI-2", "A", <<2023, 6, 1>>, <<2023, 7, 1>>, "CC2", "sup2", 20, 0, 1),
      Invoice("Sales Order", "SO-1", "A", <<2024, 1, 8>>, NoDate, "CC1", "cust1", 60, 0, 1),
      Invoice("Delivery Note", "DN-1", "A", <<2024, 1, 9>>, NoDate, "CC1", "cust1", 55, 0, 1),
      Staff("Employee", "E-1", "A", "Active"),
      Staff("Employee", "E-2", "A", "Left"),
      Staff("Employee", "E-3", "B", "Active"),
      Staff("Job Opening", "JO-1", "A", "Open"),
      Staff("Job Opening", "JO-2", "A", "Closed"),
      SalarySlip("SS-1", "A", <<2024, 1, 31>>, 9),
      SalarySlip("SS-2", "A", <<2023, 1, 31>>, 8) }

\* documents that can be posted while the model runs
NewDocs ==
    { Invoice("Sales Invoice", "SI-6", "A", <<2024, 9, 1>>, <<2024, 10, 1>>, "CC1", "cust2", 13, 13, 1),
      Invoice("Sales Invoice", "SI-7", "A", <<2025, 1, 10>>, <<2025, 2, 10>>, "CC2", "cust4", 17, 0, 1),
      Invoice("Purchase Invoice", "PI-3", "A", <<2025, 2, 2>>, <<2025, 3, 2>>, "CC1", "sup1", 19, 19, 1) }

GLRow(acc, co, pd, dr, cr, cc, canc) ==
    [account |-> acc, company |-> co, posting_date |-> pd, debit |-> dr,
     credit |-> cr, cost_center |-> cc,
     project |-> IF cc = "CC1" THEN "P1" ELSE None, is_cancelled |-> canc]

BaseGL ==
    { GLRow("Sales - A", "A", <<2024, 3, 1>>, 0, 100, "CC1", 0),
      GLRow("Sales - A", "A", <<2024, 7, 15>>, 0, 50, "CC2", 0),
      GLRow("Sales - A", "A", <<2024, 8, 1>>, 5, 0, "CC2", 0),
      GLRow("Sales - A", "A", <<2023, 11, 20>>, 0, 30, "CC1", 0),
      GLRow("Rent - A", "A", <<2024, 2, 10>>, 40, 0, "CC1", 0),
      GLRow("Rent - A", "A", <<2024, 2, 11>>, 3, 0, "CC1", 1),
      GLRow("Rent - A", "A", <<2023, 6, 1>>, 20, 0, "CC2", 0),
      GLRow("Cash - A", "A", <<2024, 7, 20>>, 50, 0, "CC2", 0),
      GLRow("Cash - A", "A", <<2024, 2, 12>>, 0, 40, "CC1", 0),
      GLRow("Bank - A", "A", <<2025, 1, 5>>, 6, 0, "CC1", 0),
      GLRow("Sales - B", "B", <<2024, 4, 9>>, 0, 11, "CC1", 0) }

AccountRow(nm, an, co, rt, at, grp, dis) ==
    [name |-> nm, account_name |-> an, company |-> co, root_type |-> rt,
     account_type |-> at, is_group |-> grp, disabled |-> dis]

BaseAccounts ==
    { AccountRow("Sales - A", "Sales", "A", "Income", "Income Account", 0, 0),
      AccountRow("Rent - A", "Rent", "A", "Expense", "Expense Account", 0, 0),
      AccountRow("Cash - A", "Cash", "A", "Asset", "Cash", 0, 0),
      AccountRow("Bank - A", "Bank", "A", "Asset", "Bank", 0, 0),
      AccountRow("Till - A", "Till", "A", "Asset", "Cash", 0, 1),
      AccountRow("Banks - A", "Banks", "A", "Asset", "Bank", 1, 0),
      AccountRow("Sales - B", "Sales", "B", "Income", "Income Account", 0, 0) }

-----------------------------------------------------------------------------
(* The query layer: frappe.db.sql / frappe.db.count on the tables above.   *)
(* A call returns [raised, value]; it raises when the table is missing.    *)

Raised == [raised |-> TRUE, value |-> 0]

Ok(v) == [raised |-> FALSE, value |-> v]

Range(s) == {s[i] : i \in DOMAIN s}

Min(S) == CHOOSE m \in S : \A o \in S : m <= o

RECURSIVE SumField(_, _)
\* SUM(`field`) over a set of rows
SumField(rows, field) ==
    IF rows = {} THEN 0
    ELSE LET r == CHOOSE r \in rows : TRUE
         IN  r[field] + SumField(rows \ {r}, field)

RECURSIVE SortAsc(_)
SortAsc(S) ==
    IF S = {} THEN << >> ELSE LET m == Min(S) IN <<m>> \o SortAsc(S \ {m})

\* one condition of a WHERE clause built from a filters dict
CondHolds(x, cond) ==
    CASE cond.op = "=" -> x = cond.val
      [] cond.op = "in" -> x \in Range(cond.val)
      [] cond.op = ">" -> x > cond.val
      [] cond.op = "between" ->
            x # NoDate /\ DateLE(cond.val[1], x) /\ DateLE(x, cond.val[2])

Eq(v) == [op |-> "=", val |-> v]

In(v) == [op |-> "in", val |-> v]

Gt(v) == [op |-> ">", val |-> v]

Between(a, b) == [op |-> "between", val |-> <<a, b>>]

\* rows of `tab<doctype>` that satisfy every condition of the filters dict
Matching(doctype, filters) ==
    {r \in docs : r.doctype = doctype /\
        \A k \in DOMAIN filters : CondHolds(r[k], filters[k])}

\* a sum that carries over what earlier requests left in the audit table
sum_doctype_field_carry(doctype, field, filters) ==
    IF doctype \notin installed THEN Raised
    ELSE Ok(SumField(Matching(doctype, filters), field) + Len(view_log))

sum_doctype_field(doctype, field, filters) ==
    IF doctype \notin installed THEN Raised
    ELSE Ok(SumField(Matching(doctype, filters), field))

\* the GROUP BY key of a row: NULL dates form a group of their own, first
PeriodKey(dt, period_type) ==
    IF dt = NoDate THEN 0
    ELSE IF period_type = "quarterly" THEN YEAR(dt) * 10 + QUARTER(dt)
    ELSE IF period_type = "weekly" THEN YEARWEEK(dt)
    ELSE YEAR(dt) * 100 + MONTH(dt)

\* the `period` column of a row, before str()
PeriodLabel(dt, period_type) ==
    IF dt = NoDate THEN <<"None">>
    ELSE IF period_type = "quarterly" THEN <<"Q", YEAR(dt), QUARTER(dt)>>
    ELSE IF period_type = "weekly" THEN <<"W", YEAR(dt), WEEK(dt)>>
    ELSE <<"M", YEAR(dt), MONTH(dt), 1>>

\* period sums that leave out the rows of a week that belongs to another year
period_sums_own_year(doctype, value_field, date_field, base_filters, period_type) ==
    IF doctype \notin installed THEN Raised
    ELSE LET rows == {r \in Matching(doctype, base_filters) :
                        r[date_field] = NoDate
                        \/ PeriodKey(r[date_field], "weekly") \div 100
                              = YEAR(r[date_field])}
             keys == SortAsc({PeriodKey(r[date_field], period_type) : r \in rows})
             group(k) == {r \in rows : PeriodKey(r[date_field], period_type) = k}
             first(k) == CHOOSE r \in group(k) : TRUE
         IN  Ok([i \in DOMAIN keys |->
                    [period |-> PeriodLabel(first(keys[i])[date_field], period_type),
                     total |-> SumField(group(keys[i]), value_field)]])

period_sums(doctype, value_field, date_field, base_filters, period_type) ==
    IF doctype \notin installed THEN Raised
    ELSE LET rows == Matching(doctype, base_filters)
             keys == SortAsc({PeriodKey(r[date_field], period_type) : r \in rows})
             group(k) == {r \in rows : PeriodKey(r[date_field], period_type) = k}
             first(k) == CHOOSE r \in group(k) : TRUE
         IN  Ok([i \in DOMAIN keys |->
                    [period |-> PeriodLabel(first(keys[i])[date_field], period_type),
                     total |-> SumField(group(keys[i]), value_field)]])

\* `if xs:` on an Optional[List[str]]
Truthy(xs) == xs # None /\ xs # << >>

\* the optional `col IN (...)` condition of a hand-built WHERE clause
InList(x, xs) == Truthy(xs) => x \in Range(xs)

pnl_from_gl(company, start_date, end_date, cost_centers, projects) ==
    IF "GL Entry" \notin installed THEN Raised
    ELSE LET rows(root_type) ==
                 {g \in gl_entries :
                     /\ g.is_cancelled = 0
                     /\ g.company = company
                     /\ g.posting_date # NoDate
                     /\ DateLE(start_date, g.posting_date)
                     /\ DateLE(g.posting_date, end_date)
                     /\ InList(g.cost_center, cost_centers)
                     /\ InList(g.project, projects)
                     /\ \E a \in accounts :
                            a.name = g.account /\ a.root_type = root_type}
             income_total ==
                 SumField(rows("Income"), "credit") - SumField(rows("Income"), "debit")
             expense_total ==
                 SumField(rows("Expense"), "debit") - SumField(rows("Expense"), "credit")
         IN  Ok([income |-> income_total, expense |-> expense_total,
                 net_profit |-> income_total - expense_total])

\* the collation order of the account names in use
AccountNames == <<"Bank", "Banks", "Cash", "Rent", "Sales", "Till">>

NameRank(n) == CHOOSE i \in DOMAIN AccountNames : AccountNames[i] = n

RECURSIVE SortByAccountName(_)
\* ORDER BY account_name asc
SortByAccountName(S) ==
    IF S = {} THEN << >>
    ELSE LET a == CHOOSE a \in S : \A o \in S :
                    NameRank(a.account_name) <= NameRank(o.account_name)
         IN  <<a>> \o SortByAccountName(S \ {a})

\* the breakdown built from the grouped ledger rows alone
cash_bank_balances_posted_only(company, end_date, cost_centers) ==
    LET accts == {a \in accounts :
                    /\ a.company = company
                    /\ a.is_group = 0
                    /\ a.account_type \in {"Cash", "Bank"}
                    /\ a.disabled = 0}
        names == {a.name : a \in accts}
        rows == {g \in gl_entries :
                    /\ g.is_cancelled = 0
                    /\ g.company = company
                    /\ g.posting_date # NoDate
                    /\ DateLE(g.posting_date, end_date)
                    /\ g.account \in names
                    /\ InList(g.cost_center, cost_centers)}
        balance(n) ==
            LET mine == {g \in rows : g.account = n}
            IN  SumField(mine, "debit") - SumField(mine, "credit")
        ordered == SortByAccountName({a \in accts : a.name \in {g.account : g \in rows}})
    IN  IF accts = {} THEN Ok(<< >>)
        ELSE IF "GL Entry" \notin installed THEN Raised
        ELSE Ok([i \in DOMAIN ordered |->
                    [account |-> ordered[i].name,
                     account_name |-> ordered[i].account_name,
                     account_type |-> ordered[i].account_type,
                     balance |-> balance(ordered[i].name)]])

cash_bank_balances(company, end_date, cost_centers) ==
    LET accts == {a \in accounts :
                    /\ a.company = company
                    /\ a.is_group = 0
                    /\ a.account_type \in {"Cash", "Bank"}
                    /\ a.disabled = 0}
        names == {a.name : a \in accts}
        rows == {g \in gl_entries :
                    /\ g.is_cancelled = 0
                    /\ g.company = company
                    /\ g.posting_date # NoDate
                    /\ DateLE(g.posting_date, end_date)
                    /\ g.account \in names
                    /\ InList(g.cost_center, cost_centers)}
        grouped == {g.account : g \in rows}
        balance(n) ==
            LET mine == {g \in rows : g.account = n}
            IN  SumField(mine, "debit") - SumField(mine, "credit")
        ordered == SortByAccountName(accts)
    IN  IF accts = {} THEN Ok(<< >>)
        ELSE IF "GL Entry" \notin installed THEN Raised
        ELSE Ok([i \in DOMAIN ordered |->
                    [account |-> ordered[i].name,
                     account_name |-> ordered[i].account_name,
                     account_type |-> ordered[i].account_type,
                     balance |-> IF ordered[i].name \in grouped
                                 THEN balance(ordered[i].name) ELSE 0]])

\* the aging sums with the first bucket ending before day 30
AgingRowGap(rows, end_date) ==
    LET days(r) == DATEDIFF(end_date, r.posting_date)
        amount(S) == SumField(S, "outstanding_amount")
    IN  ("0_30" :> amount({r \in rows : days(r) < 30}))
        @@ ("31_60" :> amount({r \in rows : days(r) > 30 /\ days(r) <= 60}))
        @@ ("61_90" :> amount({r \in rows : days(r) > 60 /\ days(r) <= 90}))
        @@ ("90_plus" :> amount({r \in rows : days(r) > 90}))
        @@ ("overdue" :> amount({r \in rows :
                r.due_date # NoDate /\ DATEDIFF(end_date, r.due_date) > 0}))
        @@ ("total" :> amount(rows))

\* the aging sums with an invoice due on the as-of date counted as overdue
AgingRowDueToday(rows, end_date) ==
    LET days(r) == DATEDIFF(end_date, r.posting_date)
        amount(S) == SumField(S, "outstanding_amount")
    IN  ("0_30" :> amount({r \in rows : days(r) <= 30}))
        @@ ("31_60" :> amount({r \in rows : days(r) > 30 /\ days(r) <= 60}))
        @@ ("61_90" :> amount({r \in rows : days(r) > 60 /\ days(r) <= 90}))
        @@ ("90_plus" :> amount({r \in rows : days(r) > 90}))
        @@ ("overdue" :> amount({r \in rows :
                r.due_date # NoDate /\ DATEDIFF(end_date, r.due_date) >= 0}))
        @@ ("total" :> amount(rows))

\* the six sums of the aging query over the rows its WHERE clause keeps
AgingRow(rows, end_date) ==
    LET days(r) == DATEDIFF(end_date, r.posting_date)
        amount(S) == SumField(S, "outstanding_amount")
    IN  ("0_30" :> amount({r \in rows : days(r) <= 30}))
        @@ ("31_60" :> amount({r \in rows : days(r) > 30 /\ days(r) <= 60}))
        @@ ("61_90" :> amount({r \in rows : days(r) > 60 /\ days(r) <= 90}))
        @@ ("90_plus" :> amount({r \in rows : days(r) > 90}))
        @@ ("overdue" :> amount({r \in rows :
                r.due_date # NoDate /\ DATEDIFF(end_date, r.due_date) > 0}))
        @@ ("total" :> amount(rows))

\* the WHERE clause of an aging query on `tab<doctype>`
AgingRows(doctype, company, end_date, cost_centers, projects, group_field, groups) ==
    {r \in docs :
        /\ r.doctype = doctype
        /\ r.docstatus = 1
        /\ r.company = company
        /\ r.posting_date # NoDate
        /\ DateLE(r.posting_date, end_date)
        /\ r.outstanding_amount > 0
        /\ InList(r.cost_center, cost_centers)
        /\ InList(r.project, projects)
        /\ InList(r[group_field], groups)}

get_ar_aging(company, end_date, cost_centers, projects, customer_groups) ==
    IF "Sales Invoice" \notin installed THEN Raised
    ELSE Ok(AgingRow(AgingRows("Sales Invoice", company, end_date, cost_centers,
                               projects, "customer_group", customer_groups),
                     end_date))

get_ap_aging(company, end_date, cost_centers, projects, supplier_groups) ==
    IF "Purchase Invoice" \notin installed THEN Raised
    ELSE Ok(AgingRow(AgingRows("Purchase Invoice", company, end_date, cost_centers,
                               projects, "supplier_group", supplier_groups),
                     end_date))

-----------------------------------------------------------------------------
(* Access guard and company resolution *)

NoError == [exc |-> None, msg |-> None]

\* frappe.throw(msg, exc)
Throw(exc, msg) == [exc |-> exc, msg |-> msg]

has_role(role) == role \in roles

\* the role check with `and` between the two roles
require_both_roles ==
    IF session_user = "Guest"
    THEN Throw("PermissionError", "Login required")
    ELSE IF ~(has_role("Management") /\ has_role("System Manager"))
    THEN Throw("PermissionError", "You are not permitted to access this dashboard.")
    ELSE NoError

require_management_role ==
    IF session_user = "Guest"
    THEN Throw("PermissionError", "Login required")
    ELSE IF ~(has_role("Management") \/ has_role("System Manager"))
    THEN Throw("PermissionError", "You are not permitted to access this dashboard.")
    ELSE NoError

RECURSIVE AppendNew(_, _)
\* append each truthy value of `vals` that the list does not hold yet
AppendNew(companies, vals) ==
    IF vals = << >> THEN companies
    ELSE AppendNew(IF Head(vals) # None /\ Head(vals) \notin Range(companies)
                   THEN Append(companies, Head(vals)) ELSE companies,
                   Tail(vals))

get_user_companies ==
    LET own == IF user_default # None THEN <<user_default>> ELSE << >>
    IN  IF perms_raise THEN own ELSE AppendNew(own, user_perms)

\* Python `a or b` on Optional[str]
PyOr(a, b) == IF a # None THEN a ELSE b

get_default_company ==
    LET companies == get_user_companies
    IN  IF companies # << >> THEN companies[1]
        ELSE PyOr(user_default, first_company)

\* Python values held by a list: a str is itself, the int 1 and None are
\* written as below
PyInt1 == "<int 1>"

PyNone == "<None>"

isinstance_str(v) == v \notin {PyInt1, PyNone}

\* raw value of a multi-select parameter: None
Absent == [t |-> "none"]

\* a string that does not start with "["
Str(text) == [t |-> "str", s |-> text]

\* a string that is a JSON array; `list` holds the literals of its elements
Json(list) == [t |-> "json", v |-> list]

\* a string that starts with "[" and is not JSON
BadJson(text) == [t |-> "badjson", s |-> text]

\* an already decoded list
List(list) == [t |-> "list", v |-> list]

\* a value that is neither a str nor a list (a number, a dict)
Other(truthy) == [t |-> "other", truthy |-> truthy]

\* the Python value of one JSON literal
json_value(literal) ==
    CASE literal = "\"CC1\"" -> "CC1"
      [] literal = "\"CC2\"" -> "CC2"
      [] literal = "1" -> PyInt1
      [] literal = "null" -> PyNone

RECURSIVE json_loads(_)
\* json.loads of a JSON array
json_loads(list) ==
    IF list = << >> THEN << >>
    ELSE <<json_value(Head(list))>> \o json_loads(Tail(list))

\* lines 487-495
parse_list(val) ==
    CASE val.t = "none" -> None
      [] val.t = "str" -> IF val.s = "" THEN None ELSE <<val.s>>
      [] val.t = "json" -> json_loads(val.v)
      [] val.t = "badjson" -> <<val.s>>
      [] val.t = "list" -> IF val.v = << >> THEN None ELSE val.v
      [] val.t = "other" -> None

\* company resolution that defaults but never refuses a named company
ResolveCompanyUnchecked(company) ==
    LET user_companies == get_user_companies
        chosen == IF ~has_role("System Manager") /\ company = None
                     /\ user_companies # << >>
                  THEN user_companies[1] ELSE company
        final == PyOr(chosen, get_default_company)
    IN  IF final = None
        THEN [err |-> Throw("ValidationError", "No Company found/configured."),
              company |-> None]
        ELSE [err |-> NoError, company |-> final]

\* company resolution that goes on without a company
ResolveCompanyNoConfigCheck(company) ==
    LET user_companies == get_user_companies
        restricted == ~has_role("System Manager")
        chosen == IF restricted /\ company = None /\ user_companies # << >>
                  THEN user_companies[1] ELSE company
    IN  IF restricted /\ company # None /\ company \notin Range(user_companies)
        THEN [err |-> Throw("PermissionError",
                            "You are not permitted to access this company."),
              company |-> None]
        ELSE [err |-> NoError, company |-> PyOr(chosen, get_default_company)]

\* lines 504-514: the company the report is for, or the error raised
ResolveCompany(company) ==
    LET user_companies == get_user_companies
        restricted == ~has_role("System Manager")
        chosen == IF restricted /\ company = None /\ user_companies # << >>
                  THEN user_companies[1] ELSE company
        final == PyOr(chosen, get_default_company)
    IN  IF restricted /\ company # None /\ company \notin Range(user_companies)
        THEN [err |-> Throw("PermissionError",
                            "You are not permitted to access this company."),
              company |-> None]
        ELSE IF final = None
        THEN [err |-> Throw("ValidationError", "No Company found/configured."),
              company |-> None]
        ELSE [err |-> NoError, company |-> final]

\* get_period(year); year 0 stands for a falsy year
get_period(year) ==
    LET y == IF year # 0 THEN year ELSE YEAR(today)
    IN  [start_date |-> <<y, 1, 1>>, end_date |-> <<y, 12, 31>>, label |-> y]

build_filters(base_filters, cost_centers, branches, projects, customer_groups, supplier_groups, item_groups) ==
    (IF Truthy(supplier_groups) THEN "supplier_group" :> In(supplier_groups) ELSE << >>)
    @@ (IF Truthy(customer_groups) THEN "customer_group" :> In(customer_groups) ELSE << >>)
    @@ (IF Truthy(projects) THEN "project" :> In(projects) ELSE << >>)
    @@ (IF Truthy(branches) THEN "branch" :> In(branches) ELSE << >>)
    @@ (IF Truthy(cost_centers) THEN "cost_center" :> In(cost_centers) ELSE << >>)
    @@ base_filters

-----------------------------------------------------------------------------
(* The sub-aggregations of get_annual_summary, in the order of the code *)

\* frappe.db.exists("DocType", doctype)
DocTypeExists(doctype) == doctype \in installed

\* frappe.db.count(doctype, {"status": status, "company": company})
db_count(doctype, status, company) ==
    IF doctype \notin installed THEN Raised
    ELSE Ok(Cardinality({r \in docs : r.doctype = doctype /\ r.status = status
                                        /\ r.company = company}))

\* frappe.db.get_value("Company", company, "default_currency")
DefaultCurrency(company) == IF company = "A" THEN "IQD" ELSE None

RECURSIVE RankDesc(_)
\* ORDER BY total DESC; equal totals come in an order the database chooses
RankDesc(S) ==
    IF S = {} THEN << >>
    ELSE LET top == CHOOSE x \in S : \A o \in S : x.total >= o.total
         IN  <<top>> \o RankDesc(S \ {top})

Limit(seq, n) == SubSeq(seq, 1, IF Len(seq) < n THEN Len(seq) ELSE n)

NewCustomers(company, period) ==
    IF "Sales Invoice" \notin installed THEN Raised
    ELSE LET mine == {r \in docs : r.doctype = "Sales Invoice" /\ r.docstatus = 1
                                     /\ r.company = company /\ r.posting_date # NoDate}
             prev_cust == {r.customer : r \in {x \in mine :
                              ~DateLE(period.start_date, x.posting_date)}}
             now == {r \in mine : DateLE(period.start_date, r.posting_date)
                                   /\ DateLE(r.posting_date, period.end_date)}
         IN  Ok(Cardinality({r.customer : r \in now} \ (prev_cust \cup {None})))

TopOverdueCustomers(company, end_date) ==
    IF "Sales Invoice" \notin installed THEN Raised
    ELSE LET rows == {r \in docs :
                        /\ r.doctype = "Sales Invoice"
                        /\ r.docstatus = 1
                        /\ r.company = company
                        /\ r.outstanding_amount > 0
                        /\ r.due_date # NoDate
                        /\ DATEDIFF(end_date, r.due_date) > 0}
             groups == {[customer |-> c,
                         total |-> SumField({r \in rows : r.customer = c},
                                            "outstanding_amount")] :
                        c \in {r.customer : r \in rows}}
         IN  Ok(Limit(RankDesc(groups), 10))

TopSuppliers(company, period) ==
    IF "Purchase Invoice" \notin installed THEN Raised
    ELSE LET rows == {r \in docs :
                        /\ r.doctype = "Purchase Invoice"
                        /\ r.docstatus = 1
                        /\ r.company = company
                        /\ r.posting_date # NoDate
                        /\ DateLE(period.start_date, r.posting_date)
                        /\ DateLE(r.posting_date, period.end_date)}
             groups == {[supplier |-> c,
                         total |-> SumField({r \in rows : r.supplier = c},
                                            "base_grand_total")] :
                        c \in {r.supplier : r \in rows}}
         IN  Ok(Limit(RankDesc(groups), 10))

\* payroll cost read without asking whether the doctype exists
PayrollCostUnguarded(payroll_filters) ==
    sum_doctype_field("Salary Slip", "base_gross_pay", payroll_filters)

\* lines 689-690: payroll cost, 0 when the payroll doctype does not exist
PayrollCost(payroll_filters) ==
    IF DocTypeExists("Salary Slip")
    THEN sum_doctype_field("Salary Slip", "base_gross_pay", payroll_filters)
    ELSE Ok(0)

\* line 693: open positions, 0 when the job-posting doctype does not exist
OpenPositions(company) ==
    IF DocTypeExists("Job Opening")
    THEN db_count("Job Opening", "Open", company)
    ELSE Ok(0)

\* the names of the sub-aggregation results, in the order the code computes them
StepOrder ==
    <<"sales_invoice_gross_current", "sales_invoice_net_current",
      "sales_invoice_gross_prev", "sales_invoice_net_prev",
      "sales_order_current", "sales_order_prev",
      "delivery_note_current", "delivery_note_prev",
      "paid_sales_invoice_current", "paid_sales_invoice_prev",
      "pending_sales_invoice_current", "pending_sales_invoice_prev",
      "purchases_current", "purchases_prev",
      "ar_outstanding", "ar_aging", "ap_outstanding", "ap_aging",
      "pnl_current", "pnl_prev", "cash_bank",
      "sales_trends", "purchases_trends",
      "new_customers", "top_overdue_customers", "top_suppliers",
      "headcount", "payroll_cost", "open_positions">>

\* lines 516-693: every sub-aggregation result, as [raised, value]
Aggregate(company, year, period_type, cc, br, prj, cg, sg, ig) ==
    LET current_year == IF year # 0 THEN year ELSE YEAR(today)
        current_period == get_period(current_year)
        prev_period == get_period(current_year - 1)
        current_filters ==
            "posting_date" :> Between(current_period.start_date, current_period.end_date)
        prev_filters ==
            "posting_date" :> Between(prev_period.start_date, prev_period.end_date)
        base(date_filters) ==
            ("docstatus" :> Eq(1)) @@ ("company" :> Eq(company)) @@ date_filters
        current_filters_full == build_filters(base(current_filters), cc, br, prj, cg, sg, ig)
        prev_filters_full == build_filters(base(prev_filters), cc, br, prj, cg, sg, ig)
        paid(f) == ("outstanding_amount" :> Eq(0)) @@ f
        pending(f) == ("outstanding_amount" :> Gt(0)) @@ f
        open(group_field, groups) ==
            (IF Truthy(groups) THEN group_field :> In(groups) ELSE << >>)
            @@ (IF Truthy(prj) THEN "project" :> In(prj) ELSE << >>)
            @@ (IF Truthy(cc) THEN "cost_center" :> In(cc) ELSE << >>)
            @@ ("docstatus" :> Eq(1)) @@ ("company" :> Eq(company))
            @@ ("outstanding_amount" :> Gt(0))
    IN  [sales_invoice_gross_current |->
            sum_doctype_field("Sales Invoice", "grand_total", current_filters_full),
         sales_invoice_net_current |->
            sum_doctype_field("Sales Invoice", "base_grand_total", current_filters_full),
         sales_invoice_gross_prev |->
            sum_doctype_field("Sales Invoice", "grand_total", prev_filters_full),
         sales_invoice_net_prev |->
            sum_doctype_field("Sales Invoice", "base_grand_total", prev_filters_full),
         sales_order_current |->
            sum_doctype_field("Sales Order", "base_grand_total", current_filters_full),
         sales_order_prev |->
            sum_doctype_field("Sales Order", "base_grand_total", prev_filters_full),
         delivery_note_current |->
            sum_doctype_field("Delivery Note", "base_grand_total", current_filters_full),
         delivery_note_prev |->
            sum_doctype_field("Delivery Note", "base_grand_total", prev_filters_full),
         paid_sales_invoice_current |->
            sum_doctype_field("Sales Invoice", "base_grand_total", paid(current_filters_full)),
         paid_sales_invoice_prev |->
            sum_doctype_field("Sales Invoice", "base_grand_total", paid(prev_filters_full)),
         pending_sales_invoice_current |->
            sum_doctype_field("Sales Invoice", "base_grand_total", pending(current_filters_full)),
         pending_sales_invoice_prev |->
            sum_doctype_field("Sales Invoice", "base_grand_total", pending(prev_filters_full)),
         purchases_current |->
            sum_doctype_field("Purchase Invoice", "base_grand_total", current_filters_full),
         purchases_prev |->
            sum_doctype_field("Purchase Invoice", "base_grand_total", prev_filters_full),
         ar_outstanding |->
            sum_doctype_field("Sales Invoice", "outstanding_amount", open("customer_group", cg)),
         ar_aging |-> get_ar_aging(company, current_period.end_date, cc, prj, cg),
         ap_outstanding |->
            sum_doctype_field("Purchase Invoice", "outstanding_amount", open("supplier_group", sg)),
         ap_aging |-> get_ap_aging(company, current_period.end_date, cc, prj, sg),
         pnl_current |->
            pnl_from_gl(company, current_period.start_date, current_period.end_date, cc, prj),
         pnl_prev |->
            pnl_from_gl(company, prev_period.start_date, prev_period.end_date, cc, prj),
         cash_bank |-> cash_bank_balances(company, current_period.end_date, cc),
         sales_trends |->
            period_sums("Sales Invoice", "base_grand_total", "posting_date",
                        current_filters_full, period_type),
         purchases_trends |->
            period_sums("Purchase Invoice", "base_grand_total", "posting_date",
                        current_filters_full, period_type),
         new_customers |-> NewCustomers(company, current_period),
         top_overdue_customers |-> TopOverdueCustomers(company, current_period.end_date),
         top_suppliers |-> TopSuppliers(company, current_period),
         headcount |-> db_count("Employee", "Active", company),
         payroll_cost |-> PayrollCost(base(current_filters)),
         open_positions |-> OpenPositions(company)]

\* the first sub-aggregation that raises, if any: the exception leaves the handler there
FirstRaised(loc) ==
    LET bad == {i \in DOMAIN StepOrder : loc[StepOrder[i]].raised}
    IN  IF bad = {} THEN None ELSE StepOrder[Min(bad)]

-----------------------------------------------------------------------------
(* Audit log *)

\* the audit write without its try/except
log_dashboard_view_unguarded(year, company, filters) ==
    LET row == [user |-> session_user, year |-> year, company |-> company,
                filters |-> filters]
    IN  CASE log_mode = "absent" ->
                [raised |-> FALSE, rows |-> view_log, attempts |-> 0]
          [] log_mode = "exists_raises" ->
                [raised |-> TRUE, rows |-> view_log, attempts |-> 0]
          [] log_mode = "insert_raises" ->
                [raised |-> TRUE, rows |-> view_log, attempts |-> 1]
          [] log_mode = "commit_raises" ->
                [raised |-> TRUE, rows |-> view_log, attempts |-> 1]
          [] log_mode = "ok" ->
                [raised |-> FALSE, rows |-> Append(view_log, row), attempts |-> 1]

\* _log_dashboard_view: [raised, rows, attempts]; `rows` is the table afterwards
log_dashboard_view(year, company, filters) ==
    LET row == [user |-> session_user, year |-> year, company |-> company,
                filters |-> filters]
    IN  CASE log_mode = "absent" ->
                [raised |-> FALSE, rows |-> view_log, attempts |-> 0]
          [] log_mode = "exists_raises" ->
                [raised |-> FALSE, rows |-> view_log, attempts |-> 0]
          [] log_mode = "insert_raises" ->
                [raised |-> FALSE, rows |-> view_log, attempts |-> 1]
          [] log_mode = "commit_raises" ->
                [raised |-> FALSE, rows |-> view_log, attempts |-> 1]
          [] log_mode = "ok" ->
                [raised |-> FALSE, rows |-> Append(view_log, row), attempts |-> 1]

-----------------------------------------------------------------------------
(* get_annual_summary *)

NoResponse == [company |-> None]

\* lines 710-767: the returned dict
Response(company, req, loc) ==
    LET current_year == IF req.year # 0 THEN req.year ELSE YEAR(today)
        current_period == get_period(current_year)
        prev_period == get_period(current_year - 1)
        company_currency == PyOr(DefaultCurrency(company), "USD")
        v(k) == loc[k].value
        pair(a, b) == [current |-> v(a), previous |-> v(b)]
        cash == v("cash_bank")
        cash_total == SumField({[i |-> i, balance |-> cash[i].balance] : i \in DOMAIN cash},
                               "balance")
    IN  [company |-> company,
         company_currency |-> company_currency,
         presentation_currency |-> PyOr(req.currency, company_currency),
         current_period |-> [year |-> current_year, label |-> current_period.label,
                             start_date |-> current_period.start_date,
                             end_date |-> current_period.end_date],
         previous_period |-> [year |-> current_year - 1, label |-> prev_period.label,
                              start_date |-> prev_period.start_date,
                              end_date |-> prev_period.end_date],
         kpis |-> [sales_invoice_gross |-> pair("sales_invoice_gross_current", "sales_invoice_gross_prev"),
                   sales_invoice_net |-> pair("sales_invoice_net_current", "sales_invoice_net_prev"),
                   sales_order |-> pair("sales_order_current", "sales_order_prev"),
                   delivery_note |-> pair("delivery_note_current", "delivery_note_prev"),
                   paid_sales_invoice |-> pair("paid_sales_invoice_current", "paid_sales_invoice_prev"),
                   pending_sales_invoice |-> pair("pending_sales_invoice_current", "pending_sales_invoice_prev"),
                   purchases |-> pair("purchases_current", "purchases_prev"),
                   income |-> [current |-> v("pnl_current").income,
                               previous |-> v("pnl_prev").income],
                   expense |-> [current |-> v("pnl_current").expense,
                                previous |-> v("pnl_prev").expense],
                   net_profit |-> [current |-> v("pnl_current").net_profit,
                                   previous |-> v("pnl_prev").net_profit],
                   ar_outstanding |-> v("ar_outstanding"),
                   ap_outstanding |-> v("ap_outstanding"),
                   cash_total |-> cash_total],
         aging |-> [ar |-> v("ar_aging"), ap |-> v("ap_aging")],
         trends |-> [sales |-> v("sales_trends"), purchases |-> v("purchases_trends")],
         breakdowns |-> [cash_bank |-> cash,
                         top_overdue_customers |-> v("top_overdue_customers"),
                         top_suppliers |-> v("top_suppliers")],
         customer_health |-> [new_customers |-> v("new_customers"),
                              top_overdue |-> Limit(v("top_overdue_customers"), 5)],
         hr |-> [headcount |-> v("headcount"),
                 payroll_cost |-> v("payroll_cost"),
                 open_positions |-> v("open_positions")]]

\* an aborted call: the exception, the steps run, and no response
Aborted(err, steps, at) ==
    [exc |-> err.exc, msg |-> err.msg, steps |-> steps, failed_at |-> at,
     company |-> None, response |-> NoResponse, rows |-> view_log, attempts |-> 0]

\* get_annual_summary with the audit row written before the company is resolved
HandleLogFirst(req) ==
    LET auth == require_management_role
        cc == parse_list(req.cost_centers)
        br == parse_list(req.branches)
        prj == parse_list(req.projects)
        cg == parse_list(req.customer_groups)
        sg == parse_list(req.supplier_groups)
        ig == parse_list(req.item_groups)
        res == ResolveCompany(req.company)
        current_year == IF req.year # 0 THEN req.year ELSE YEAR(today)
        loc == Aggregate(res.company, req.year, req.period_type, cc, br, prj, cg, sg, ig)
        failed == FirstRaised(loc)
        lg == log_dashboard_view(current_year, res.company,
                                 [cost_centers |-> cc, branches |-> br, projects |-> prj,
                                  customer_groups |-> cg, supplier_groups |-> sg,
                                  item_groups |-> ig, period_type |-> req.period_type])
    IN  IF auth.exc # None
        THEN Aborted(auth, <<"role">>, "role")
        ELSE IF res.err.exc # None
        THEN [Aborted(res.err, <<"role", "parse", "log", "company">>, "company")
              EXCEPT !.rows = lg.rows, !.attempts = lg.attempts]
        ELSE IF failed # None
        THEN [Aborted(Throw("DatabaseError", "missing table"),
                      <<"role", "parse", "company", "aggregate">>, failed)
              EXCEPT !.company = res.company]
        ELSE IF lg.raised
        THEN [Aborted(Throw("DatabaseError", "audit log"),
                      <<"role", "parse", "company", "aggregate", "log">>, "log")
              EXCEPT !.company = res.company, !.rows = lg.rows,
                     !.attempts = lg.attempts]
        ELSE [exc |-> None, msg |-> None,
              steps |-> <<"role", "parse", "company", "aggregate", "log", "return">>,
              failed_at |-> None, company |-> res.company,
              response |-> Response(res.company, req, loc),
              rows |-> lg.rows, attempts |-> lg.attempts]

\* the whole of get_annual_summary on request `req`
Handle(req) ==
    LET auth == require_management_role
        cc == parse_list(req.cost_centers)
        br == parse_list(req.branches)
        prj == parse_list(req.projects)
        cg == parse_list(req.customer_groups)
        sg == parse_list(req.supplier_groups)
        ig == parse_list(req.item_groups)
        res == ResolveCompany(req.company)
        current_year == IF req.year # 0 THEN req.year ELSE YEAR(today)
        loc == Aggregate(res.company, req.year, req.period_type, cc, br, prj, cg, sg, ig)
        failed == FirstRaised(loc)
        lg == log_dashboard_view(current_year, res.company,
                                 [cost_centers |-> cc, branches |-> br, projects |-> prj,
                                  customer_groups |-> cg, supplier_groups |-> sg,
                                  item_groups |-> ig, period_type |-> req.period_type])
    IN  IF auth.exc # None
        THEN Aborted(auth, <<"role">>, "role")
        ELSE IF res.err.exc # None
        THEN Aborted(res.err, <<"role", "parse", "company">>, "company")
        ELSE IF failed # None
        THEN [Aborted(Throw("DatabaseError", "missing table"),
                      <<"role", "parse", "company", "aggregate">>, failed)
              EXCEPT !.company = res.company]
        ELSE IF lg.raised
        THEN [Aborted(Throw("DatabaseError", "audit log"),
                      <<"role", "parse", "company", "aggregate", "log">>, "log")
              EXCEPT !.company = res.company, !.rows = lg.rows,
                     !.attempts = lg.attempts]
        ELSE [exc |-> None, msg |-> None,
              steps |-> <<"role", "parse", "company", "aggregate", "log", "return">>,
              failed_at |-> None, company |-> res.company,
              response |-> Response(res.company, req, loc),
              rows |-> lg.rows, attempts |-> lg.attempts]

Request(year, company, cost_centers, period_type) ==
    [year |-> year, company |-> company, cost_centers |-> cost_centers,
     branches |-> Absent, projects |-> Absent, customer_groups |-> Absent,
     supplier_groups |-> Absent, item_groups |-> Absent,
     period_type |-> period_type, currency |-> None]

\* the requests made in the model
Requests ==
    {Request(y, c, cc, "monthly") :
        y \in {0, 2024}, c \in {None, "A", "B"}, cc \in {Absent, Str("CC1")}}

\* one call of the endpoint by the session user
get_annual_summary(req) ==
    /\ n_calls < MaxCalls
    /\ LET out == Handle(req)
       IN  /\ last' = [called |-> TRUE, req |-> req, user |-> session_user,
                       year |-> IF req.year # 0 THEN req.year ELSE YEAR(today),
                       installed |-> installed, log_mode |-> log_mode,
                       repeat |-> last.called /\ last.req = req
                                  /\ last.user = session_user /\ ~changed,
                       out |-> out]
           /\ view_log' = out.rows
    /\ n_calls' = n_calls + 1
    /\ changed' = FALSE
    /\ UNCHANGED <<session_user, roles, user_default, user_perms, first_company,
                   perms_raise, installed, log_mode, today, docs, n_changes,
                   gl_entries, accounts, aging_in, aging_out, trend_in, trend_out,
                parse_in, parse_out, filter_in, filter_out>>

-----------------------------------------------------------------------------
(* The environment *)

Companies == {"A", "B"}

AllDoctypes ==
    {"Sales Invoice", "Purchase Invoice", "Sales Order", "Delivery Note",
     "GL Entry", "Employee", "Salary Slip", "Job Opening"}

\* doctypes of modules a site may lack
OptionalDoctypes == {"Delivery Note", "Salary Slip", "Job Opening"}

\* the doctypes the HR counters guard with frappe.db.exists
HRDoctypes == {"Salary Slip", "Job Opening"}

LogModes == {"ok", "absent", "exists_raises", "insert_raises", "commit_raises"}

Idle == [called |-> FALSE]

NoAging == [kind |-> None]

NoTrend == [doctype |-> None]

\* no computation made yet
NotRun == [done |-> FALSE]

\* what every specification starts from, the caller and the tables apart
InitRest ==
    /\ view_log = << >>
    /\ last = Idle
    /\ n_calls = 0
    /\ changed = FALSE
    /\ n_changes = 0
    /\ gl_entries = BaseGL
    /\ accounts = BaseAccounts
    /\ aging_in = NoAging
    /\ aging_out = NoAging
    /\ trend_in = NoTrend
    /\ trend_out = NoTrend
    /\ parse_in = Absent
    /\ parse_out = NotRun
    /\ filter_in = NotRun
    /\ filter_out = NotRun

\* any caller, any company set-up, a site with or without the stock module
Init ==
    /\ session_user \in {"Guest", "alice"}
    /\ roles \in SUBSET {"Management", "System Manager"}
    /\ user_default \in Companies \cup {None}
    /\ user_perms \in {<< >>, <<"A">>, <<"B", "A">>}
    /\ first_company \in {None, "A"}
    /\ perms_raise \in BOOLEAN
    /\ installed \in {AllDoctypes, AllDoctypes \ {"Delivery Note"}}
    /\ log_mode = "ok"
    /\ today = <<2024, 6, 15>>
    /\ docs = BaseDocs
    /\ InitRest

Next == \E req \in Requests : req.year = 0 /\ req.cost_centers = Absent
                                /\ get_annual_summary(req)

Spec == Init /\ [][Next]_vars

-----------------------------------------------------------------------------
(* A Management user of company A on a site, with or without the HR       *)
(* module, whose clock, documents, modules and audit table change between  *)
(* calls                                                                   *)

InitReport ==
    /\ session_user = "alice"
    /\ roles = {"Management"}
    /\ user_default = "A"
    /\ user_perms = << >>
    /\ first_company = "A"
    /\ perms_raise = FALSE
    /\ installed \in {AllDoctypes, AllDoctypes \ HRDoctypes}
    /\ log_mode = "ok"
    /\ today = <<2024, 6, 15>>
    /\ docs = BaseDocs
    /\ InitRest

EnvUnchanged ==
    UNCHANGED <<session_user, roles, user_default, user_perms, first_company,
                perms_raise, view_log, last, n_calls, gl_entries, accounts,
                aging_in, aging_out, trend_in, trend_out,
                parse_in, parse_out, filter_in, filter_out>>

Change == n_changes < MaxChanges /\ n_changes' = n_changes + 1

\* the calendar year ends
Tick ==
    /\ Change
    /\ YEAR(today) < MaxYear
    /\ today' = <<YEAR(today) + 1, 1, 1>>
    /\ UNCHANGED <<installed, log_mode, docs, changed>>
    /\ EnvUnchanged

\* a document is submitted
PostDocument(d) ==
    /\ Change
    /\ d \notin docs
    /\ Cardinality(docs \ BaseDocs) < MaxPosted
    /\ docs' = docs \cup {d}
    /\ changed' = TRUE
    /\ UNCHANGED <<installed, log_mode, today>>
    /\ EnvUnchanged

\* a module is removed from the site
Uninstall(doctype) ==
    /\ Change
    /\ doctype \in installed
    /\ installed' = installed \ {doctype}
    /\ UNCHANGED <<log_mode, today, docs, changed>>
    /\ EnvUnchanged

\* a module is added to the site
Install(doctype) ==
    /\ Change
    /\ doctype \notin installed
    /\ installed' = installed \cup {doctype}
    /\ UNCHANGED <<log_mode, today, docs, changed>>
    /\ EnvUnchanged

\* the Dashboard View Log table starts to behave as `mode`
SetLogMode(mode) ==
    /\ Change
    /\ mode # log_mode
    /\ log_mode' = mode
    /\ UNCHANGED <<installed, today, docs, changed>>
    /\ EnvUnchanged

NextReport ==
    \/ \E req \in Requests : req.company = None /\ get_annual_summary(req)
    \/ Tick
    \/ \E d \in NewDocs : PostDocument(d)
    \/ \E doctype \in OptionalDoctypes : Uninstall(doctype)
    \/ \E doctype \in OptionalDoctypes : Install(doctype)
    \/ \E mode \in LogModes : SetLogMode(mode)

SpecReport == InitReport /\ [][NextReport]_vars

-----------------------------------------------------------------------------
(* Properties of the access guard and of company resolution (Spec) *)

\* the step of a behaviour that is a call of get_annual_summary
IsCall == n_calls' = n_calls + 1

\* the role check passed for the session user
RolePassed == session_user # "Guest" /\ roles # {}

\* the user's default company together with the companies granted to the user
PermittedCompanies == ({user_default} \cup Range(user_perms)) \ {None}

\* C1: a caller who is not a System Manager and names a company outside the
\* permitted set (user default plus grants) gets a permission error and no
\* report; past the role check it is the company error.
C1_ForbiddenOutsidePermitted ==
    (/\ last.called
     /\ "System Manager" \notin roles
     /\ last.req.company # None
     /\ last.req.company \notin PermittedCompanies)
    => /\ last.out.exc = "PermissionError"
       /\ last.out.response = NoResponse
       /\ "aggregate" \notin Range(last.out.steps)
       /\ RolePassed =>
            last.out.msg = "You are not permitted to access this company."

C1_Witness ==
    /\ last.called
    /\ roles = {"Management"}
    /\ session_user = "alice"
    /\ user_default = "A"
    /\ last.req.company = "B"
    /\ last.out.msg = "You are not permitted to access this company."

\* C2: an authorized call without a company, by a caller with no default and
\* no grants, on a site with no company to fall back on, fails with the
\* configuration error before any aggregation runs.
C2_NoCompanyConfigured ==
    (/\ last.called
     /\ RolePassed
     /\ last.req.company = None
     /\ user_default = None
     /\ user_perms = << >>
     /\ first_company = None)
    => /\ last.out.exc = "ValidationError"
       /\ last.out.msg = "No Company found/configured."
       /\ last.out.response = NoResponse
       /\ "aggregate" \notin Range(last.out.steps)

C2_Witness ==
    /\ last.called
    /\ roles = {"System Manager"}
    /\ session_user = "alice"
    /\ last.req.company = None
    /\ user_default = None /\ user_perms = << >> /\ first_company = None
    /\ last.out.exc = "ValidationError"

\* C3: a call stops at the role check with a permission error exactly when the
\* caller is Guest or holds neither Management nor System Manager; a caller
\* who is logged in and holds one of the two roles passes the check.
C3_RoleCheck ==
    last.called =>
        /\ (last.out.failed_at = "role") <=>
              (session_user = "Guest"
               \/ roles \cap {"Management", "System Manager"} = {})
        /\ last.out.failed_at = "role" =>
              /\ last.out.exc = "PermissionError"
              /\ last.out.response = NoResponse
              /\ last.out.steps = <<"role">>
        /\ session_user = "Guest" => last.out.msg = "Login required"

C3_Witness ==
    /\ last.called
    /\ session_user = "alice"
    /\ roles = {}
    /\ last.out.failed_at = "role"
    /\ last.out.msg = "You are not permitted to access this dashboard."

\* the call got past the role check and company resolution
PastAccess(call) == call.out.failed_at \notin {"role", "company"}

\* the permitted companies in their stated order: the user default,
\* then the granted companies it does not repeat
PermittedList ==
    (IF user_default # None THEN <<user_default>> ELSE << >>)
    \o SelectSeq(user_perms, LAMBDA c : c # None /\ c # user_default)

\* C11: an authorized call that names no company, by a caller with at least one
\* permitted company (user default or grant), is served for the first company
\* of the permitted list: the user default if there is one, else the first
\* granted company.
C11_FirstPermittedCompany ==
    (/\ last.called
     /\ RolePassed
     /\ last.req.company = None
     /\ PermittedCompanies # {})
    => /\ PastAccess(last)
       /\ last.out.company = PermittedList[1]

\* the steps of get_annual_summary in the order of the code
FullOrder == <<"role", "parse", "company", "aggregate", "log", "return">>

\* C15: the steps of a call are an initial part of role check, parsing,
\* company resolution, aggregation, audit write, response; the audit write is
\* attempted only when the role check passed, a company was resolved and every
\* sub-aggregation completed, so a call that aborts before that leaves the
\* audit table as it was; a call writes nothing but at most one audit row.
C15_StepOrder ==
    [][IsCall =>
        LET out == last'.out
        IN  /\ out.steps = SubSeq(FullOrder, 1, Len(out.steps))
            /\ (out.attempts > 0 \/ view_log' # view_log) =>
                  /\ RolePassed
                  /\ out.company # None
                  /\ out.failed_at = None
                  /\ "log" \in Range(out.steps)
            /\ out.exc # None => (view_log' = view_log /\ out.attempts = 0)
            /\ \/ view_log' = view_log
               \/ /\ Len(view_log') = Len(view_log) + 1
                  /\ SubSeq(view_log', 1, Len(view_log)) = view_log
                  /\ view_log'[Len(view_log')].user = session_user
                  /\ view_log'[Len(view_log')].company = out.company
            /\ UNCHANGED <<docs, gl_entries, accounts, installed, session_user,
                           roles, user_default, user_perms, first_company>>
      ]_vars

\* a report was served and logged, then a call for a company outside the
\* permitted set was refused and the audit table still has the one row
C15_Witness ==
    /\ last.called
    /\ n_calls = 2
    /\ last.out.failed_at = "company"
    /\ last.out.exc = "PermissionError"
    /\ last.out.steps = <<"role", "parse", "company">>
    /\ Len(view_log) = 1
    /\ view_log[1].user = session_user

\* C16: a report returned to a caller who is not a System Manager is for a
\* company of the caller's permitted set (user default plus grants), and so is
\* the company of the audit row the call wrote, whether the company was named
\* or chosen by defaulting.
C16_ReportCompanyPermitted ==
    (/\ last.called
     /\ "System Manager" \notin roles
     /\ last.out.exc = None)
    => /\ last.out.response.company \in PermittedCompanies
       /\ last.out.attempts > 0 =>
             view_log[Len(view_log)].company \in PermittedCompanies

-----------------------------------------------------------------------------
(* Properties of the report (SpecReport) *)

\* two consecutive calls: same request, same caller, same resolved year,
\* no document posted in between
SameCall == last.called /\ last'.repeat /\ last'.year = last.year

\* C4: once the role check has passed and a company is resolved, the call
\* returns a report, whichever sub-aggregation's table is missing.
C4_SubAggregationFailureContained ==
    (last.called /\ PastAccess(last)) => last.out.exc = None

\* responses that agree on every field but the two guarded HR counters
EqualButHR(a, b) ==
    [a EXCEPT !.hr.payroll_cost = 0, !.hr.open_positions = 0]
        = [b EXCEPT !.hr.payroll_cost = 0, !.hr.open_positions = 0]

HRDegrades(call) ==
    /\ "Salary Slip" \notin call.installed =>
          /\ call.out.failed_at # "payroll_cost"
          /\ call.out.exc = None => call.out.response.hr.payroll_cost = 0
    /\ "Job Opening" \notin call.installed =>
          /\ call.out.failed_at # "open_positions"
          /\ call.out.exc = None => call.out.response.hr.open_positions = 0
    /\ (AllDoctypes \ HRDoctypes) \subseteq call.installed => call.out.exc = None

\* C5: without the Salary Slip doctype payroll_cost is 0, without the Job
\* Opening doctype open_positions is 0, the absence of either never fails the
\* call, and every other field of the report is what it is with them present.
C5_HRModulesOptional ==
    [][IsCall =>
        /\ PastAccess(last') => HRDegrades(last')
        /\ (/\ SameCall
            /\ last.installed \ HRDoctypes = last'.installed \ HRDoctypes
            /\ last.out.exc = None)
           => /\ last'.out.exc = None
              /\ EqualButHR(last.out.response, last'.out.response)]_vars

C5_Witness ==
    /\ last.called
    /\ last.repeat
    /\ "Salary Slip" \notin last.installed
    /\ last.out.exc = None
    /\ last.out.response.hr.payroll_cost = 0
    /\ last.out.response.hr.headcount = 1

\* C6: whatever the audit table does (absent, lookup, insert or commit
\* raising), a call that reaches the write returns its report, the same one
\* as when the write succeeds, and the insert is tried at most once.
C6_AuditWriteContained ==
    [][IsCall =>
        /\ last'.out.failed_at # "log"
        /\ last'.out.attempts <= 1
        /\ Len(view_log') <= Len(view_log) + 1
        /\ (SameCall /\ last'.installed = last.installed)
           => /\ last'.out.exc = last.out.exc
              /\ last'.out.response = last.out.response]_vars

C6_Witness ==
    /\ last.called
    /\ last.repeat
    /\ last.log_mode = "insert_raises"
    /\ last.out.exc = None
    /\ last.out.attempts = 1
    /\ Len(view_log) = 1

\* C10 as stated: a second call with the same parameters by the same caller,
\* with no change to the data in between, returns the same KPI numbers.
C10_SameParametersSameKpis ==
    [][(/\ IsCall
        /\ last.called
        /\ last'.repeat
        /\ last'.installed = last.installed
        /\ last.out.exc = None
        /\ last'.out.exc = None)
       => last'.out.response.kpis = last.out.response.kpis]_vars

\* C10, amended: a second call with the same parameters by the same caller,
\* with no change to the data in between and, when `year` is omitted, in the
\* same calendar year, returns the same KPI numbers and the same report;
\* only the audit table differs.
C10_SameYearSameKpis ==
    [][(/\ IsCall
        /\ SameCall
        /\ last'.installed = last.installed
        /\ last.out.exc = None)
       => /\ last'.out.exc = None
          /\ last'.out.response.kpis = last.out.response.kpis
          /\ last'.out.response = last.out.response]_vars

C10_Witness ==
    /\ last.called
    /\ last.repeat
    /\ last.req.year = 0
    /\ last.log_mode = "ok"
    /\ last.out.exc = None
    /\ last.out.response.kpis.sales_invoice_net.current = 150
    /\ Len(view_log) = 2

\* the enabled non-group Cash and Bank accounts of a company
CashBankAccounts(company) ==
    {a \in accounts : /\ a.company = company
                      /\ a.is_group = 0
                      /\ a.disabled = 0
                      /\ a.account_type \in {"Cash", "Bank"}}

\* sum(debit - credit) of the postings of an account that a call counts
PostedBalance(call, account) ==
    LET cost_centers == parse_list(call.req.cost_centers)
        mine == {g \in gl_entries :
                    /\ g.account = account
                    /\ g.company = call.out.response.company
                    /\ g.is_cancelled = 0
                    /\ g.posting_date # NoDate
                    /\ DateLE(g.posting_date, call.out.response.current_period.end_date)
                    /\ Truthy(cost_centers) => g.cost_center \in Range(cost_centers)}
    IN  SumField(mine, "debit") - SumField(mine, "credit")

\* C14: the cash/bank breakdown of a report has exactly one entry for every
\* enabled non-group Cash or Bank account of the company, with the balance
\* sum(debit - credit) of its postings up to the period end, 0 when it has
\* none, and kpis.cash_total is the sum of the listed balances.
C14_CashBankEntries ==
    (last.called /\ last.out.exc = None) =>
        LET cash == last.out.response.breakdowns.cash_bank
            expected == CashBankAccounts(last.out.response.company)
        IN  /\ {cash[i].account : i \in DOMAIN cash} = {a.name : a \in expected}
            /\ Cardinality(DOMAIN cash) = Cardinality(expected)
            /\ \A i \in DOMAIN cash :
                  cash[i].balance = PostedBalance(last, cash[i].account)
            /\ last.out.response.kpis.cash_total =
                  SumField({[account |-> cash[i].account, balance |-> cash[i].balance] :
                              i \in DOMAIN cash}, "balance")

\* a report for 2024: the bank account, first posted to in 2025, is listed
\* with balance 0 next to the cash account
C14_Witness ==
    /\ last.called
    /\ last.out.exc = None
    /\ last.req.cost_centers = Absent
    /\ last.out.response.current_period.year = 2024
    /\ LET cash == last.out.response.breakdowns.cash_bank
       IN  /\ DOMAIN cash = 1..2
           /\ cash[1].account = "Bank - A" /\ cash[1].balance = 0
           /\ cash[2].account = "Cash - A" /\ cash[2].balance = 10
    /\ last.out.response.kpis.cash_total = 10

-----------------------------------------------------------------------------
(* The aging queries on their own (SpecAging) *)

RECURSIVE UpTo(_, _)
\* the subsets of `pool` with at most n elements
UpTo(pool, n) ==
    IF n = 0 THEN {{}}
    ELSE LET less == UpTo(pool, n - 1)
         IN  less \cup {S \cup {x} : S \in less, x \in pool}

\* invoices of company A around the as-of date 2024-04-01: posted 0, 30, 31,
\* 60, 61, 90 and 91 days before it and one day after it, due before it, on
\* it, after it and never, submitted and draft, unpaid and paid
AgingPool ==
    UNION {{ Invoice(dt, "a", "A", <<2024, 4, 1>>, <<2024, 5, 1>>, "CC1", "p1", 10, 10, 1),
             Invoice(dt, "b", "A", <<2024, 3, 2>>, <<2024, 4, 1>>, "CC1", "p1", 20, 20, 1),
             Invoice(dt, "c", "A", <<2024, 3, 1>>, <<2024, 2, 1>>, "CC1", "p2", 100, 100, 1),
             Invoice(dt, "d", "A", <<2024, 2, 1>>, <<2024, 3, 31>>, "CC2", "p2", 30, 30, 1),
             Invoice(dt, "e", "A", <<2024, 1, 31>>, NoDate, "CC1", "p3", 40, 40, 1),
             Invoice(dt, "f", "A", <<2024, 1, 2>>, <<2024, 1, 15>>, "CC2", "p3", 50, 50, 1),
             Invoice(dt, "g", "A", <<2024, 1, 1>>, <<2024, 1, 10>>, "CC1", "p1", 60, 60, 1),
             Invoice(dt, "h", "A", <<2024, 4, 2>>, <<2024, 4, 20>>, "CC1", "p1", 70, 70, 1),
             Invoice(dt, "i", "A", <<2024, 3, 10>>, <<2024, 3, 20>>, "CC1", "p2", 80, 80, 0),
             Invoice(dt, "j", "A", <<2024, 3, 5>>, <<2024, 3, 6>>, "CC1", "p2", 90, 0, 1),
             Invoice(dt, "k", "B", <<2024, 3, 1>>, <<2024, 3, 6>>, "CC1", "p2", 15, 15, 1) } :
           dt \in {"Sales Invoice", "Purchase Invoice"}}

AsOfDates == {<<2024, 4, 1>>, <<2024, 3, 31>>, <<2024, 12, 31>>}

\* the caller and the site of the specifications that run one query
InitSite ==
    /\ session_user = "alice"
    /\ roles = {"Management"}
    /\ user_default = "A"
    /\ user_perms = << >>
    /\ first_company = "A"
    /\ perms_raise = FALSE
    /\ installed = AllDoctypes
    /\ log_mode = "ok"
    /\ today = <<2024, 6, 15>>
    /\ InitRest

InitAging ==
    /\ docs \in UpTo(AgingPool, MaxInvoices)
    /\ InitSite

AgingUnchanged ==
    UNCHANGED <<session_user, roles, user_default, user_perms, first_company,
                perms_raise, installed, log_mode, today, docs, view_log, last,
                n_calls, changed, n_changes, gl_entries, accounts, trend_in,
                trend_out, parse_in, parse_out, filter_in, filter_out>>

\* one call of _get_ar_aging
RunArAging(end_date, cost_centers, customer_groups) ==
    /\ aging_in = NoAging
    /\ aging_in' = [kind |-> "AR", doctype |-> "Sales Invoice", company |-> "A",
                    end_date |-> end_date, cost_centers |-> cost_centers,
                    groups |-> customer_groups, group_field |-> "customer_group"]
    /\ aging_out' = get_ar_aging("A", end_date, cost_centers, None, customer_groups).value
    /\ AgingUnchanged

\* one call of _get_ap_aging
RunApAging(end_date, cost_centers, supplier_groups) ==
    /\ aging_in = NoAging
    /\ aging_in' = [kind |-> "AP", doctype |-> "Purchase Invoice", company |-> "A",
                    end_date |-> end_date, cost_centers |-> cost_centers,
                    groups |-> supplier_groups, group_field |-> "supplier_group"]
    /\ aging_out' = get_ap_aging("A", end_date, cost_centers, None, supplier_groups).value
    /\ AgingUnchanged

NextAging ==
    \/ \E d \in AsOfDates, cc \in {None, <<"CC1">>}, g \in {None, <<"Retail">>} :
            RunArAging(d, cc, g)
    \/ \E d \in AsOfDates, cc \in {None, <<"CC1">>}, g \in {None, <<"Local">>} :
            RunApAging(d, cc, g)

SpecAging == InitAging /\ [][NextAging]_vars

\* C7: in every AR and AP aging result the four buckets add up to the total.
C7_BucketsSumToTotal ==
    aging_in.kind # None =>
        aging_out["0_30"] + aging_out["31_60"] + aging_out["61_90"]
            + aging_out["90_plus"] = aging_out["total"]

C7_Witness ==
    /\ aging_in.kind = "AP"
    /\ aging_out["0_30"] = 20
    /\ aging_out["61_90"] = 40
    /\ aging_out["total"] = 60

\* the invoices an aging result is about: submitted, of the company, posted
\* on or before the as-of date, with a positive outstanding amount, and
\* passing the cost-centre and group filters
Aged ==
    {r \in docs :
        /\ r.doctype = aging_in.doctype
        /\ r.docstatus = 1
        /\ r.company = aging_in.company
        /\ r.outstanding_amount > 0
        /\ DateLE(r.posting_date, aging_in.end_date)
        /\ aging_in.cost_centers # None => r.cost_center \in Range(aging_in.cost_centers)
        /\ aging_in.groups # None => r[aging_in.group_field] \in Range(aging_in.groups)}

AgeInDays(r) == DayNumber(aging_in.end_date) - DayNumber(r.posting_date)

Outstanding(S) == SumField(S, "outstanding_amount")

\* C8: each aged amount is in the bucket of its age in days, 0..30, 31..60,
\* 61..90 or 91 and more, and is in overdue exactly when its due date is
\* before the as-of date; the invoice posted 2024-03-01 and due 2024-02-01
\* with 100 outstanding, aged as of 2024-04-01, is 100 of bucket 31_60 and 100
\* of overdue.
C8_BucketsByAgeAndOverdue ==
    aging_in.kind # None =>
        /\ aging_out["0_30"] = Outstanding({r \in Aged : AgeInDays(r) \in 0..30})
        /\ aging_out["31_60"] = Outstanding({r \in Aged : AgeInDays(r) \in 31..60})
        /\ aging_out["61_90"] = Outstanding({r \in Aged : AgeInDays(r) \in 61..90})
        /\ aging_out["90_plus"] = Outstanding({r \in Aged : AgeInDays(r) >= 91})
        /\ aging_out["overdue"] =
              Outstanding({r \in Aged : r.due_date # NoDate
                                        /\ ~DateLE(aging_in.end_date, r.due_date)})
        /\ (/\ aging_in.kind = "AR"
            /\ aging_in.end_date = <<2024, 4, 1>>
            /\ aging_in.cost_centers = None /\ aging_in.groups = None
            /\ \E r \in docs : /\ docs = {r}
                                /\ r.doctype = "Sales Invoice"
                                /\ r.posting_date = <<2024, 3, 1>>
                                /\ r.due_date = <<2024, 2, 1>>)
           => aging_out["31_60"] = 100 /\ aging_out["overdue"] = 100

C8_Witness ==
    /\ aging_in.kind = "AR"
    /\ aging_in.end_date = <<2024, 4, 1>>
    /\ Cardinality(docs) = 1
    /\ \E r \in docs : r.posting_date = <<2024, 3, 1>> /\ r.due_date = <<2024, 2, 1>>
                         /\ r.outstanding_amount = 100
    /\ aging_out["31_60"] = 100
    /\ aging_out["overdue"] = 100
    /\ aging_out["total"] = 100

-----------------------------------------------------------------------------
(* The trend query against the plain sum (SpecTrend) *)

\* invoices of company A on both sides of month, quarter, week and year ends
TrendPool ==
    UNION {{ Invoice(dt, "a", "A", <<2024, 1, 1>>, NoDate, "CC1", "p1", 1, 0, 1),
             Invoice(dt, "b", "A", <<2024, 1, 7>>, NoDate, "CC2", "p1", 2, 0, 1),
             Invoice(dt, "c", "A", <<2024, 1, 8>>, NoDate, "CC1", "p1", 4, 0, 1),
             Invoice(dt, "d", "A", <<2024, 3, 31>>, NoDate, "CC1", "p1", 8, 0, 1),
             Invoice(dt, "e", "A", <<2024, 4, 1>>, NoDate, "CC2", "p1", 16, 0, 1),
             Invoice(dt, "f", "A", <<2024, 12, 30>>, NoDate, "CC1", "p1", 32, 0, 1),
             Invoice(dt, "g", "A", <<2025, 1, 1>>, NoDate, "CC1", "p1", 64, 0, 1),
             Invoice(dt, "h", "A", <<2023, 12, 31>>, NoDate, "CC1", "p1", 128, 0, 1),
             Invoice(dt, "i", "A", <<2024, 2, 2>>, NoDate, "CC1", "p1", 256, 0, 0),
             Invoice(dt, "j", "B", <<2024, 2, 3>>, NoDate, "CC1", "p1", 512, 0, 1),
             Invoice(dt, "k", "A", NoDate, NoDate, "CC1", "p1", 1024, 0, 1) } :
           dt \in {"Sales Invoice", "Purchase Invoice"}}

\* the filter sets get_annual_summary builds, and one without a date range
TrendFilters ==
    LET base(y) == ("docstatus" :> Eq(1)) @@ ("company" :> Eq("A"))
                   @@ ("posting_date" :> Between(<<y, 1, 1>>, <<y, 12, 31>>))
    IN  { build_filters(base(2024), None, None, None, None, None, None),
          build_filters(base(2024), <<"CC1">>, None, None, None, None, None),
          build_filters(base(2025), None, None, None, None, None, None),
          ("docstatus" :> Eq(1)) @@ ("company" :> Eq("A")) }

InitTrend ==
    /\ docs \in UpTo(TrendPool, MaxInvoices)
    /\ InitSite

\* _period_sums and _sum_doctype_field on the same doctype, field and filters
RunPeriodSums(doctype, filters, period_type) ==
    /\ trend_in = NoTrend
    /\ trend_in' = [doctype |-> doctype, filters |-> filters,
                    period_type |-> period_type]
    /\ trend_out' =
          [series |-> period_sums(doctype, "base_grand_total", "posting_date",
                                  filters, period_type).value,
           total |-> sum_doctype_field(doctype, "base_grand_total", filters).value]
    /\ UNCHANGED <<session_user, roles, user_default, user_perms, first_company,
                   perms_raise, installed, log_mode, today, docs, view_log, last,
                   n_calls, changed, n_changes, gl_entries, accounts, aging_in,
                   aging_out, parse_in, parse_out, filter_in, filter_out>>

NextTrend ==
    \E doctype \in {"Sales Invoice", "Purchase Invoice"}, filters \in TrendFilters,
       period_type \in {"monthly", "quarterly", "weekly"} :
        RunPeriodSums(doctype, filters, period_type)

SpecTrend == InitTrend /\ [][NextTrend]_vars

RECURSIVE SumTotals(_)
SumTotals(series) ==
    IF series = << >> THEN 0 ELSE Head(series).total + SumTotals(Tail(series))

\* C9: the per-period totals of a trend series add up to the plain sum of the
\* same field of the same doctype under the same filters.
C9_TrendSumsToTotal ==
    trend_in.doctype # None => SumTotals(trend_out.series) = trend_out.total

C9_Witness ==
    /\ trend_in.doctype = "Sales Invoice"
    /\ trend_in.period_type = "weekly"
    /\ Len(trend_out.series) = 2
    /\ trend_out.series[1].period = <<"W", 2024, 1>>
    /\ trend_out.series[2].period = <<"W", 2024, 53>>
    /\ trend_out.total = 33

-----------------------------------------------------------------------------
(* parse_list on every shape of raw value (SpecParse) *)

MaxItems == 3

RECURSIVE ListsUpTo(_, _)
\* the lists of at most n elements of S
ListsUpTo(S, n) ==
    IF n = 0 THEN {<< >>}
    ELSE LET shorter == ListsUpTo(S, n - 1)
         IN  shorter \cup {Append(l, e) : l \in shorter, e \in S}

JsonLiterals == {"\"CC1\"", "\"CC2\"", "1", "null"}

RawValues ==
    {Absent, Other(FALSE), Other(TRUE)}
    \cup {Str(text) : text \in {"", "CC1", "CC1,CC2"}}
    \cup {BadJson(text) : text \in {"[", "[CC1]"}}
    \cup {Json(l) : l \in ListsUpTo(JsonLiterals, MaxItems)}
    \cup {List(l) : l \in ListsUpTo({"CC1", "CC2", PyInt1}, MaxItems)}

InitParse ==
    /\ docs = BaseDocs
    /\ InitSite

\* one call of parse_list
RunParseList(val) ==
    /\ ~parse_out.done
    /\ parse_in' = val
    /\ parse_out' = [done |-> TRUE, value |-> parse_list(val)]
    /\ UNCHANGED <<session_user, roles, user_default, user_perms, first_company,
                   perms_raise, installed, log_mode, today, docs, view_log, last,
                   n_calls, changed, n_changes, gl_entries, accounts, aging_in,
                   aging_out, trend_in, trend_out, filter_in, filter_out>>

NextParse == \E val \in RawValues : RunParseList(val)

SpecParse == InitParse /\ [][NextParse]_vars

\* C12: whatever the raw value, parse_list returns None or a non-empty list
\* whose elements are all strings; never an empty list.
C12_NoneOrNonEmptyStrings ==
    parse_out.done =>
        \/ parse_out.value = None
        \/ /\ parse_out.value # << >>
           /\ \A e \in Range(parse_out.value) : isinstance_str(e)

-----------------------------------------------------------------------------
(* The filter sets of a request and the documents they keep (SpecFilter) *)

\* a submitted invoice of company A with a value in every dimension
FilterDoc(nm, dt, pd, cc, br, prj, cg, sg, ig, total) ==
    [Invoice(dt, nm, "A", pd, NoDate, cc, "p1", total, 0, 1)
        EXCEPT !.branch = br, !.project = prj, !.customer_group = cg,
               !.supplier_group = sg, !.item_group = ig]

FilterDocs ==
    { FilterDoc("F1", "Sales Invoice", <<2024, 2, 1>>, "CC1", "HQ", "P1", "Retail", None, "Goods", 1),
      FilterDoc("F2", "Sales Invoice", <<2024, 3, 1>>, "CC2", "HQ", "P1", "Retail", None, "Services", 2),
      FilterDoc("F3", "Sales Invoice", <<2024, 4, 1>>, "CC1", "North", "P2", "Wholesale", None, "Goods", 4),
      FilterDoc("F4", "Sales Invoice", <<2023, 5, 1>>, "CC1", "HQ", "P1", "Retail", None, "Services", 8),
      FilterDoc("F5", "Purchase Invoice", <<2024, 6, 1>>, "CC1", "HQ", "P1", None, "Local", "Goods", 16),
      FilterDoc("F6", "Purchase Invoice", <<2024, 7, 1>>, "CC2", "North", "P2", None, "Import", "Services", 32),
      FilterDoc("F7", "Purchase Invoice", <<2023, 8, 1>>, "CC1", "HQ", "P1", None, "Local", "Goods", 64),
      [FilterDoc("F8", "Sales Invoice", <<2024, 9, 1>>, "CC1", "HQ", "P1", "Retail", None, "Goods", 128)
          EXCEPT !.docstatus = 0],
      [FilterDoc("F9", "Sales Invoice", <<2024, 9, 2>>, "CC1", "HQ", "P1", "Retail", None, "Goods", 256)
          EXCEPT !.company = "B"] }

\* a parsed multi-select parameter: absent, empty, one value, two values
DimOptions(v1, v2) == {None, << >>, <<v1>>, <<v1, v2>>}

\* the six dimensions and the column each one restricts
Dimensions ==
    [cost_centers |-> "cost_center", branches |-> "branch", projects |-> "project",
     customer_groups |-> "customer_group", supplier_groups |-> "supplier_group",
     item_groups |-> "item_group"]

InitFilter ==
    /\ docs = FilterDocs
    /\ InitSite

\* lines 516-553 for the year 2024, then the WHERE clause of a period-bound sum
RunBuildFilters(dims, which, doctype) ==
    /\ ~filter_out.done
    /\ LET period == get_period(IF which = "current" THEN 2024 ELSE 2024 - 1)
           base == ("docstatus" :> Eq(1)) @@ ("company" :> Eq("A"))
                   @@ ("posting_date" :> Between(period.start_date, period.end_date))
           filters == build_filters(base, dims.cost_centers, dims.branches,
                                    dims.projects, dims.customer_groups,
                                    dims.supplier_groups, dims.item_groups)
       IN  /\ filter_in' = [done |-> TRUE, dims |-> dims, which |-> which,
                            doctype |-> doctype, period |-> period]
           /\ filter_out' =
                 [done |-> TRUE,
                  keys |-> DOMAIN filters,
                  kept |-> {r.name : r \in Matching(doctype, filters)},
                  total |-> sum_doctype_field(doctype, "base_grand_total", filters).value]
    /\ UNCHANGED <<session_user, roles, user_default, user_perms, first_company,
                   perms_raise, installed, log_mode, today, docs, view_log, last,
                   n_calls, changed, n_changes, gl_entries, accounts, aging_in,
                   aging_out, trend_in, trend_out, parse_in, parse_out>>

NextFilter ==
    \E cc \in DimOptions("CC1", "CC2"), br \in DimOptions("HQ", "North"),
       prj \in DimOptions("P1", "P2"), cg \in DimOptions("Retail", "Wholesale"),
       sg \in DimOptions("Local", "Import"), ig \in DimOptions("Goods", "Services"),
       which \in {"current", "previous"},
       doctype \in {"Sales Invoice", "Purchase Invoice"} :
        RunBuildFilters([cost_centers |-> cc, branches |-> br, projects |-> prj,
                         customer_groups |-> cg, supplier_groups |-> sg,
                         item_groups |-> ig], which, doctype)

SpecFilter == InitFilter /\ [][NextFilter]_vars

\* the submitted documents of the company and period that pass every
\* dimension given a non-empty list
Allowed(call) ==
    {r \in docs :
        /\ r.doctype = call.doctype
        /\ r.docstatus = 1
        /\ r.company = "A"
        /\ r.posting_date # NoDate
        /\ DateLE(call.period.start_date, r.posting_date)
        /\ DateLE(r.posting_date, call.period.end_date)
        /\ \A d \in DOMAIN Dimensions :
              Truthy(call.dims[d]) => r[Dimensions[d]] \in Range(call.dims[d])}

\* C13: for each of the six dimensions, an absent or empty parameter puts no
\* restriction on the period-bound sums and a present one keeps exactly the
\* documents whose value is in its list, the dimensions combining by AND.
C13_DimensionFilters ==
    filter_out.done =>
        /\ filter_out.kept = {r.name : r \in Allowed(filter_in)}
        /\ filter_out.total = SumField(Allowed(filter_in), "base_grand_total")

====
